---- MODULE Spec2Model ----
(***************************************************************************)
(* Model of reader.cpp: the ChronoLog archive reader command-line client.  *)
(* main() parses its flags, creates an HDF5ArchiveReadingAgent, reads the  *)
(* story chunks of a time window into the global list_of_chunks, prints    *)
(* and deletes them, and shuts the agent down.  signalHandler() is the     *)
(* SIGINT handler: it deletes whatever list_of_chunks holds, shuts down    *)
(* and deletes whatever agent_ptr points to, and exits.                    *)
(***************************************************************************)
EXTENDS Integers, Sequences, FiniteSets, TLC

(***************************************************************************)
(* Bounds of the model.                                                    *)
(***************************************************************************)
\* longest command line explored (argv[1..])
MaxArgs == 4
\* largest number of chunks one readArchivedStory call delivers
MaxChunks == 2
\* longest command line explored where the claim is about the run after the
\* flag loop and not about the flags
MaxRunArgs == 2
\* largest number of event records in one chunk
MaxEvents == 2

(***************************************************************************)
(* Unsigned 64-bit numbers.  start_time and end_time are uint64_t; they    *)
(* are kept as decimal digit sequences, most significant digit first,      *)
(* without leading zeros (zero is <<0>>).                                  *)
(***************************************************************************)
ULLONG_MAX == <<1,8,4,4,6,7,4,4,0,7,3,7,0,9,5,5,1,6,1,5>>
TwoTo64 == <<1,8,4,4,6,7,4,4,0,7,3,7,0,9,5,5,1,6,1,6>>

RECURSIVE StripZeros(_)
StripZeros(d) ==
    IF Len(d) > 1 /\ d[1] = 0 THEN StripZeros(Tail(d)) ELSE d

PadTo(d, n) == [i \in 1..n |-> IF i <= n - Len(d) THEN 0 ELSE d[i - (n - Len(d))]]

RECURSIVE LexLess(_, _, _)
LexLess(a, b, i) ==
    IF i > Len(a) THEN FALSE
    ELSE IF a[i] # b[i] THEN a[i] < b[i]
    ELSE LexLess(a, b, i + 1)

\* a < b, for numbers without leading zeros
NumLess(a, b) ==
    \/ Len(a) < Len(b)
    \/ Len(a) = Len(b) /\ LexLess(a, b, 1)

NumGreater(a, b) == NumLess(b, a)

\* digit-wise addition of two equally long digit sequences, from the right
RECURSIVE AddFrom(_, _, _, _, _)
AddFrom(a, b, i, carry, acc) ==
    IF i = 0 THEN (IF carry = 0 THEN acc ELSE <<carry>> \o acc)
    ELSE LET s == a[i] + b[i] + carry
         IN  AddFrom(a, b, i - 1, s \div 10, <<s % 10>> \o acc)

NumAdd(a, b) ==
    LET n == IF Len(a) > Len(b) THEN Len(a) ELSE Len(b)
    IN  StripZeros(AddFrom(PadTo(a, n), PadTo(b, n), n, 0, <<>>))

\* digit-wise subtraction a - b for a >= b, from the right
RECURSIVE SubFrom(_, _, _, _, _)
SubFrom(a, b, i, borrow, acc) ==
    IF i = 0 THEN acc
    ELSE LET s == a[i] - b[i] - borrow
         IN  IF s < 0 THEN SubFrom(a, b, i - 1, 1, <<s + 10>> \o acc)
                      ELSE SubFrom(a, b, i - 1, 0, <<s>> \o acc)

NumSub(a, b) ==
    LET n == Len(a)
    IN  StripZeros(SubFrom(a, PadTo(b, n), n, 0, <<>>))

\* uint64_t addition: modulo 2^64
AddU64(a, b) ==
    LET s == NumAdd(a, b)
    IN  IF NumGreater(s, ULLONG_MAX) THEN NumSub(s, TwoTo64) ELSE s

(***************************************************************************)
(* Command-line words are sequences of characters.                         *)
(***************************************************************************)
DigitChars == <<"0", "1", "2", "3", "4", "5", "6", "7", "8", "9">>

IsDigit(ch) == \E k \in 1..10 : DigitChars[k] = ch

DigitValue(ch) == (CHOOSE k \in 1..10 : DigitChars[k] = ch) - 1

\* the longest prefix of digit characters of s, as digit values
RECURSIVE DigitPrefix(_)
DigitPrefix(s) ==
    IF s = <<>> \/ ~IsDigit(Head(s)) THEN <<>>
    ELSE <<DigitValue(Head(s))>> \o DigitPrefix(Tail(s))

\* std::stoull(word): an optional sign, then decimal digits up to the first
\* other character.  No digit: std::invalid_argument.  Magnitude above
\* ULLONG_MAX: std::out_of_range.  A minus sign negates modulo 2^64.
Stoull(word) ==
    LET neg    == word # <<>> /\ Head(word) = "-"
        signed == word # <<>> /\ Head(word) \in {"-", "+"}
        body   == IF signed THEN Tail(word) ELSE word
        digs   == DigitPrefix(body)
        mag    == StripZeros(digs)
    IN  IF digs = <<>> THEN [threw |-> TRUE, value |-> <<0>>]
        ELSE IF NumGreater(mag, ULLONG_MAX) THEN [threw |-> TRUE, value |-> <<0>>]
        ELSE IF neg /\ mag # <<0>> THEN [threw |-> FALSE, value |-> NumSub(TwoTo64, mag)]
        ELSE [threw |-> FALSE, value |-> mag]

F_c      == <<"-", "c">>
F_config == <<"-", "-", "c", "o", "n", "f", "i", "g">>
F_C      == <<"-", "C">>
F_S      == <<"-", "S">>
F_st     == <<"-", "s", "t">>
F_start  == <<"-", "-", "s", "t", "a", "r", "t">>
F_et     == <<"-", "e", "t">>
F_end    == <<"-", "-", "e", "n", "d">>

\* the words the explored command lines are built from
Words == {F_c, F_config, F_C, F_S, F_st, F_start, F_et, F_end,
          <<"f">>, <<"1">>, <<"-", "1">>}

RECURSIVE SeqsUpTo(_, _)
SeqsUpTo(S, n) ==
    IF n = 0 THEN {<<>>}
    ELSE LET shorter == SeqsUpTo(S, n - 1)
         IN  shorter \cup {Append(s, w) : s \in {t \in shorter : Len(t) = n - 1}, w \in S}

CommandLines == SeqsUpTo(Words, MaxArgs)
RunCommandLines == SeqsUpTo(Words, MaxRunArgs)

DefaultStart == <<1,7,3,6,8,0,0,0,0,0,0,0,0,0,0,0,0,0,0>>
DefaultEnd ==
    AddU64(<<1,7,4,5,5,3,9,1,8,9,3,9,6,2,9,5,7,9,6>>, <<1,0,0,0,0,0,0,0,0,0,0,0,0,0,0,0>>)

Defaults ==
    [conf_file      |-> <<>>,
     chronicle_name |-> <<"L", "L", "M">>,
     story_name     |-> <<"c", "o", "n", "v", "e", "r", "s", "a", "t", "i", "o", "n">>,
     start_time     |-> DefaultStart,
     end_time       |-> DefaultEnd,
     threw          |-> FALSE]

\* The flag loop of main, from argv[i] on (args is argv[1..argc-1], so
\* "i+1 < argc" reads i < Len(args)).  A flag that has a following word
\* consumes it; anything else is ignored.  A std::stoull exception leaves
\* the loop at once.
RECURSIVE FlagLoop(_, _, _)
FlagLoop(args, i, q) ==
    IF i > Len(args) THEN q
    ELSE LET a    == args[i]
             more == i < Len(args)
         IN  IF a \in {F_c, F_config} /\ more
                 THEN FlagLoop(args, i + 2, [q EXCEPT !.conf_file = args[i + 1]])
             ELSE IF a = F_C /\ more
                 THEN FlagLoop(args, i + 2, [q EXCEPT !.chronicle_name = args[i + 1]])
             ELSE IF a = F_S /\ more
                 THEN FlagLoop(args, i + 2, [q EXCEPT !.story_name = args[i + 1]])
             ELSE IF a \in {F_st, F_start} /\ more
                 THEN LET v == Stoull(args[i + 1])
                      IN  IF v.threw THEN [q EXCEPT !.threw = TRUE]
                          ELSE FlagLoop(args, i + 2, [q EXCEPT !.start_time = v.value])
             ELSE IF a \in {F_et, F_end} /\ more
                 THEN LET v == Stoull(args[i + 1])
                      IN  IF v.threw THEN [q EXCEPT !.threw = TRUE]
                          ELSE FlagLoop(args, i + 2, [q EXCEPT !.end_time = v.value])
             ELSE FlagLoop(args, i + 1, q)

ParseArgs(args) == FlagLoop(args, 1, Defaults)

(***************************************************************************)
(* Program constants.                                                      *)
(***************************************************************************)
SIGINT == 2
EXIT_FAILURE == 1
EXIT_SUCCESS == 0

(***************************************************************************)
(* State.                                                                  *)
(***************************************************************************)
VARIABLES
    argv,            \* the command line, argv[1..argc-1]
    archive,         \* what the archive holds for the query: the chunks the
                     \* read call delivers, in order, each as its event indices
    conf_file, chronicle_name, story_name, start_time, end_time,
    pc,              \* the statement of main about to run
    it,              \* position of the range-for iterator of main's current loop
    list_of_chunks,  \* the global list: a sequence of chunk addresses
    agent_ptr,       \* the global pointer: NullPtr or TheAgent
    heap,            \* chunk address -> "unallocated" | "live" | "freed"
    events,          \* chunk address -> the event indices the chunk holds
    agent,           \* the agent object: its storage, whether initialize()
                     \* succeeded, how often shutdown() ran on it
    installed,       \* signal(SIGINT, signalHandler) has run
    hpc,             \* the statement of signalHandler about to run, or "none"
    hit,             \* position of the handler's range-for iterator
    term,            \* "running" | "exit" (return from main, std::exit) | "abort"
    status,          \* the exit status once term = "exit"
    out,             \* what was written to std::cout and std::cerr, in order
    calls,           \* the calls made on the agent, in order, with their caller
    deletes,         \* chunk address -> who ran delete on it, in order
    readResult,      \* "none" | "ok" | "failed": how readArchivedStory ended
    sigAt            \* where main stood when SIGINT was delivered

vars == <<argv, archive, conf_file, chronicle_name, story_name, start_time, end_time,
          pc, it, list_of_chunks, agent_ptr, heap, events, agent, installed, hpc,
          hit, term, status, out, calls, deletes, readResult, sigAt>>

queryVars == <<conf_file, chronicle_name, story_name, start_time, end_time>>
memVars == <<list_of_chunks, heap, events, deletes>>
agentVars == <<agent_ptr, agent, calls>>
handlerVars == <<hpc, hit, sigAt>>
endVars == <<term, status>>

Chunks == 1..MaxChunks
NullPtr == "nullptr"
TheAgent == "agent"
NoSignal == [pc |-> "none", it |-> 0]

\* what a chunk can hold: the event indices 1..n of n records
EventSets == {1..n : n \in 0..MaxEvents}

\* the archives explored: up to MaxChunks chunks of any of these contents,
\* and, where the contents do not matter, chunks of one record each
Archives == SeqsUpTo(EventSets, MaxChunks)
OneEventArchives == {[c \in 1..n |-> {1}] : n \in 0..MaxChunks}

InitWith(lines, archives) ==
    /\ argv \in lines
    /\ archive \in archives
    /\ conf_file = Defaults.conf_file
    /\ chronicle_name = Defaults.chronicle_name
    /\ story_name = Defaults.story_name
    /\ start_time = Defaults.start_time
    /\ end_time = Defaults.end_time
    /\ pc = "flags"
    /\ it = 0
    /\ list_of_chunks = <<>>
    /\ agent_ptr = NullPtr
    /\ heap = [c \in Chunks |-> "unallocated"]
    /\ events = [c \in Chunks |-> {}]
    /\ agent = [mem |-> "none", init |-> "no", down |-> 0]
    /\ installed = FALSE
    /\ hpc = "none"
    /\ hit = 0
    /\ term = "running"
    /\ status = 0
    /\ out = <<>>
    /\ calls = <<>>
    /\ deletes = [c \in Chunks |-> <<>>]
    /\ readResult = "none"
    /\ sigAt = NoSignal

Init == InitWith(CommandLines, OneEventArchives)

\* main runs while the process lives and the handler is not on its stack
MainRuns == term = "running" /\ hpc = "none"

\* std::terminate on an uncaught exception, or a crash: the process ends
\* without running any further statement
Abort ==
    /\ term' = "abort"
    /\ status' = status

\* std::exit(code), or return code from main
Exit(code) ==
    /\ term' = "exit"
    /\ status' = code

\* delete c: the chunk's storage is freed, whatever its state was
DeleteChunk(c, who) ==
    /\ heap' = [heap EXCEPT ![c] = "freed"]
    /\ deletes' = [deletes EXCEPT ![c] = Append(@, who)]

\* delete of storage that is already freed is undefined: the process either
\* goes on or crashes
Outcomes(undefined) == IF undefined THEN {"goes on", "crashes"} ELSE {"goes on"}

Call(op, who) == [op |-> op, by |-> who]

(***************************************************************************)
(* main, statement by statement.                                           *)
(***************************************************************************)
\* the defaults and the flag loop
ParseFlags ==
    /\ MainRuns /\ pc = "flags"
    /\ LET q == ParseArgs(argv)
       IN  IF q.threw
           THEN /\ Abort
                /\ UNCHANGED <<pc, queryVars>>
           ELSE /\ conf_file' = q.conf_file
                /\ chronicle_name' = q.chronicle_name
                /\ story_name' = q.story_name
                /\ start_time' = q.start_time
                /\ end_time' = q.end_time
                /\ pc' = "check_conf"
                /\ UNCHANGED endVars
    /\ UNCHANGED <<argv, archive, it, memVars, agentVars, installed, handlerVars, out, readResult>>

\* if(conf_file.empty()) { usage; return EXIT_FAILURE; }
CheckConf ==
    /\ MainRuns /\ pc = "check_conf"
    /\ IF conf_file = <<>>
       THEN /\ out' = Append(out, <<"usage">>)
            /\ Exit(EXIT_FAILURE)
            /\ pc' = pc
       ELSE /\ pc' = "logger"
            /\ UNCHANGED <<out, endVars>>
    /\ UNCHANGED <<argv, archive, queryVars, it, memVars, agentVars, installed, handlerVars, readResult>>

\* ConfigurationManager conf(conf_file); r = chrono_monitor::initialize(...);
\* if(r == 1) return EXIT_FAILURE;
InitLogger ==
    /\ MainRuns /\ pc = "logger"
    /\ \E r \in {0, 1} :
         IF r = 1
         THEN Exit(EXIT_FAILURE) /\ pc' = pc
         ELSE pc' = "install" /\ UNCHANGED endVars
    /\ UNCHANGED <<argv, archive, queryVars, it, memVars, agentVars, installed, handlerVars, out, readResult>>

\* signal(SIGINT, signalHandler); tl::abt scope;
InstallHandler ==
    /\ MainRuns /\ pc = "install"
    /\ installed' = TRUE
    /\ pc' = "new_agent"
    /\ UNCHANGED <<argv, archive, queryVars, it, memVars, agentVars, handlerVars, endVars, out, readResult>>

\* agent_ptr = new chronolog::HDF5ArchiveReadingAgent(archive_path);
NewAgent ==
    /\ MainRuns /\ pc = "new_agent"
    /\ agent_ptr' = TheAgent
    /\ agent' = [mem |-> "live", init |-> "no", down |-> 0]
    /\ calls' = Append(calls, Call("new", "main"))
    /\ pc' = "initialize"
    /\ UNCHANGED <<argv, archive, queryVars, it, memVars, installed, handlerVars, endVars, out, readResult>>

\* How a call into the agent can end.  Its header is not part of the
\* program: a failure comes back as a status, which main discards, or as
\* an exception, which main does not catch.
CallEnds == {"ok", "error status", "exception"}

\* agent_ptr->initialize();
Initialize ==
    /\ MainRuns /\ pc = "initialize"
    /\ \E res \in CallEnds :
         /\ agent' = [agent EXCEPT !.init = IF res = "ok" THEN "yes" ELSE "failed"]
         /\ IF res = "exception"
            THEN Abort /\ pc' = pc
            ELSE pc' = "read" /\ UNCHANGED endVars
    /\ calls' = Append(calls, Call("initialize", "main"))
    /\ UNCHANGED <<argv, archive, queryVars, it, memVars, agent_ptr, installed, handlerVars, out, readResult>>

\* std::cout << "Reading [...]"; agent_ptr->readArchivedStory(...) is entered
ReadCall ==
    /\ MainRuns /\ pc = "read"
    /\ out' = Append(out, <<"reading">>)
    /\ calls' = Append(calls, Call("readArchivedStory", "main"))
    /\ pc' = "reading"
    /\ UNCHANGED <<argv, archive, queryVars, it, memVars, agent_ptr, agent, installed, handlerVars, endVars, readResult>>

\* inside readArchivedStory: one more chunk is allocated and appended
ReadDeliver ==
    /\ MainRuns /\ pc = "reading"
    /\ Len(list_of_chunks) < Len(archive)
    /\ LET c == Len(list_of_chunks) + 1
       IN  /\ heap' = [heap EXCEPT ![c] = "live"]
           /\ events' = [events EXCEPT ![c] = archive[c]]
           /\ list_of_chunks' = Append(list_of_chunks, c)
    /\ UNCHANGED <<argv, archive, queryVars, pc, it, deletes, agentVars, installed, handlerVars, endVars, out, readResult>>

\* readArchivedStory ends: with everything delivered, or earlier by a failure
ReadEnd ==
    /\ MainRuns /\ pc = "reading"
    /\ \E res \in CallEnds :
         /\ res = "ok" => Len(list_of_chunks) = Len(archive)
         /\ readResult' = IF res = "ok" THEN "ok" ELSE "failed"
         /\ IF res = "exception"
            THEN Abort /\ pc' = pc
            ELSE pc' = "print_count" /\ UNCHANGED endVars
    /\ UNCHANGED <<argv, archive, queryVars, it, memVars, agentVars, installed, handlerVars, out>>

\* the count printed one too high
PrintCountOffByOne ==
    /\ MainRuns /\ pc = "print_count"
    /\ out' = Append(out, <<"count", Len(list_of_chunks) + 1>>)
    /\ pc' = "render"
    /\ it' = 1
    /\ UNCHANGED <<argv, archive, queryVars, memVars, agentVars, installed, handlerVars, endVars, readResult>>

\* std::cout << list_of_chunks.size() << " chunk(s) returned.\n";
PrintCount ==
    /\ MainRuns /\ pc = "print_count"
    /\ out' = Append(out, <<"count", Len(list_of_chunks)>>)
    /\ pc' = "render"
    /\ it' = 1
    /\ UNCHANGED <<argv, archive, queryVars, memVars, agentVars, installed, handlerVars, endVars, readResult>>

\* chunk->getEventCount()
EventCount(c) == Cardinality(events[c])

\* for(auto const &kv : *chunk): the chunk's records as its iterator yields
\* them, by ascending event index
RECURSIVE ChunkIteration(_)
ChunkIteration(held) ==
    IF held = {} THEN <<>>
    ELSE LET first == CHOOSE k \in held : \A j \in held : k <= j
         IN  <<first>> \o ChunkIteration(held \ {first})

\* the body printing the records first and the count line after them
RenderingCountLast(c) ==
    LET order == ChunkIteration(events[c])
    IN  [i \in 1..Len(order) |-> <<"record", c, order[i]>>] \o <<<<"chunk", c, EventCount(c)>>>>

\* what the body of the first loop prints for chunk c: the line with the
\* event count, then one line for each record
Rendering(c) ==
    LET order == ChunkIteration(events[c])
    IN  <<<<"chunk", c, EventCount(c)>>>> \o [i \in 1..Len(order) |-> <<"record", c, order[i]>>]

\* the body of the first loop up to its delete: the chunk is read and printed
RenderChunk ==
    /\ MainRuns /\ pc = "render"
    /\ it <= Len(list_of_chunks)
    /\ LET c == list_of_chunks[it]
       IN  \E o \in Outcomes(heap[c] # "live") :
             IF o = "crashes"
             THEN Abort /\ UNCHANGED <<pc, out>>
             ELSE /\ out' = out \o Rendering(c)
                  /\ pc' = "render_delete"
                  /\ UNCHANGED endVars
    /\ UNCHANGED <<argv, archive, queryVars, it, memVars, agentVars, installed, handlerVars, readResult>>

\* delete chunk; at the end of the first loop's body
RenderDelete ==
    /\ MainRuns /\ pc = "render_delete"
    /\ LET c == list_of_chunks[it]
       IN  /\ DeleteChunk(c, "render")
           /\ \E o \in Outcomes(heap[c] # "live") :
                IF o = "crashes"
                THEN Abort /\ UNCHANGED <<pc, it>>
                ELSE pc' = "render" /\ it' = it + 1 /\ UNCHANGED endVars
    /\ UNCHANGED <<argv, archive, queryVars, list_of_chunks, events, agentVars, installed, handlerVars, out, readResult>>

\* main without its clean-up loop and its clear(): from the first loop
\* straight to the shutdown
RenderEndSkipsCleanup ==
    /\ MainRuns /\ pc = "render"
    /\ it > Len(list_of_chunks)
    /\ pc' = "shutdown"
    /\ it' = 1
    /\ UNCHANGED <<argv, archive, queryVars, memVars, agentVars, installed, handlerVars, endVars, out, readResult>>

\* the first loop is over; the second loop starts
RenderEnd ==
    /\ MainRuns /\ pc = "render"
    /\ it > Len(list_of_chunks)
    /\ pc' = "cleanup"
    /\ it' = 1
    /\ UNCHANGED <<argv, archive, queryVars, memVars, agentVars, installed, handlerVars, endVars, out, readResult>>

\* delete chunk; in the second ("clean up story-chunks") loop
CleanupDelete ==
    /\ MainRuns /\ pc = "cleanup"
    /\ it <= Len(list_of_chunks)
    /\ LET c == list_of_chunks[it]
       IN  /\ DeleteChunk(c, "cleanup")
           /\ \E o \in Outcomes(heap[c] # "live") :
                IF o = "crashes"
                THEN Abort /\ UNCHANGED <<pc, it>>
                ELSE pc' = pc /\ it' = it + 1 /\ UNCHANGED endVars
    /\ UNCHANGED <<argv, archive, queryVars, list_of_chunks, events, agentVars, installed, handlerVars, out, readResult>>

\* list_of_chunks.clear();
ClearList ==
    /\ MainRuns /\ pc = "cleanup"
    /\ it > Len(list_of_chunks)
    /\ list_of_chunks' = <<>>
    /\ pc' = "shutdown"
    /\ UNCHANGED <<argv, archive, queryVars, it, heap, events, deletes, agentVars, installed, handlerVars, endVars, out, readResult>>

\* agent_ptr->shutdown();
Shutdown ==
    /\ MainRuns /\ pc = "shutdown"
    /\ agent' = [agent EXCEPT !.down = @ + 1]
    /\ calls' = Append(calls, Call("shutdown", "main"))
    /\ pc' = "delete_agent"
    /\ UNCHANGED <<argv, archive, queryVars, it, memVars, agent_ptr, installed, handlerVars, endVars, out, readResult>>

\* main with its delete agent_ptr left out
DeleteAgentForgotten ==
    /\ MainRuns /\ pc = "delete_agent"
    /\ pc' = "null_agent"
    /\ UNCHANGED <<argv, archive, queryVars, it, memVars, agentVars, installed, handlerVars, endVars, out, readResult>>

\* delete agent_ptr;
DeleteAgent ==
    /\ MainRuns /\ pc = "delete_agent"
    /\ agent' = [agent EXCEPT !.mem = "freed"]
    /\ calls' = Append(calls, Call("delete", "main"))
    /\ pc' = "null_agent"
    /\ UNCHANGED <<argv, archive, queryVars, it, memVars, agent_ptr, installed, handlerVars, endVars, out, readResult>>

\* agent_ptr = nullptr;
NullAgent ==
    /\ MainRuns /\ pc = "null_agent"
    /\ agent_ptr' = NullPtr
    /\ pc' = "return"
    /\ UNCHANGED <<argv, archive, queryVars, it, memVars, agent, calls, installed, handlerVars, endVars, out, readResult>>

\* return 0;
Return ==
    /\ MainRuns /\ pc = "return"
    /\ Exit(EXIT_SUCCESS)
    /\ UNCHANGED <<argv, archive, queryVars, pc, it, memVars, agentVars, installed, handlerVars, out, readResult>>

(***************************************************************************)
(* signalHandler.  SIGINT is delivered between two statements of main,     *)
(* once the handler is installed; main does not run again.                 *)
(***************************************************************************)
Signal ==
    /\ MainRuns /\ installed
    /\ hpc' = "print"
    /\ sigAt' = [pc |-> pc, it |-> it]
    /\ UNCHANGED <<argv, archive, queryVars, pc, it, memVars, agentVars, installed, hit, endVars, out, readResult>>

HandlerRuns == term = "running" /\ hpc # "none"

\* std::cout << "Interrupt (" << sig << ")\n";
HPrint ==
    /\ HandlerRuns /\ hpc = "print"
    /\ out' = Append(out, <<"interrupt", SIGINT>>)
    /\ hpc' = "chunks"
    /\ hit' = 1
    /\ UNCHANGED <<argv, archive, queryVars, pc, it, memVars, agentVars, installed, sigAt, endVars, readResult>>

\* the handler's loop with its delete left out: it walks the list and frees
\* nothing
HDeleteLeaky ==
    /\ HandlerRuns /\ hpc = "chunks"
    /\ hit <= Len(list_of_chunks)
    /\ hit' = hit + 1
    /\ UNCHANGED <<argv, archive, queryVars, pc, it, memVars, agentVars, installed, hpc, sigAt, endVars, out, readResult>>

\* for(auto *c : list_of_chunks) delete c;
HDelete ==
    /\ HandlerRuns /\ hpc = "chunks"
    /\ hit <= Len(list_of_chunks)
    /\ LET c == list_of_chunks[hit]
       IN  /\ DeleteChunk(c, "handler")
           /\ \E o \in Outcomes(heap[c] # "live") :
                IF o = "crashes"
                THEN Abort /\ hit' = hit
                ELSE hit' = hit + 1 /\ UNCHANGED endVars
    /\ UNCHANGED <<argv, archive, queryVars, pc, it, list_of_chunks, events, agentVars, installed, hpc, sigAt, out, readResult>>

\* if(agent_ptr) agent_ptr->shutdown(), ...
HShutdown ==
    /\ HandlerRuns /\ hpc = "chunks"
    /\ hit > Len(list_of_chunks)
    /\ IF agent_ptr = NullPtr
       THEN /\ hpc' = "exit"
            /\ UNCHANGED <<agent, calls, endVars>>
       ELSE /\ agent' = [agent EXCEPT !.down = @ + 1]
            /\ calls' = Append(calls, Call("shutdown", "handler"))
            /\ \E o \in Outcomes(agent.mem # "live") :
                 IF o = "crashes"
                 THEN Abort /\ hpc' = hpc
                 ELSE hpc' = "delete_agent" /\ UNCHANGED endVars
    /\ UNCHANGED <<argv, archive, queryVars, pc, it, memVars, agent_ptr, installed, hit, sigAt, out, readResult>>

\* ... , delete agent_ptr;
HDeleteAgent ==
    /\ HandlerRuns /\ hpc = "delete_agent"
    /\ agent' = [agent EXCEPT !.mem = "freed"]
    /\ calls' = Append(calls, Call("delete", "handler"))
    /\ \E o \in Outcomes(agent.mem # "live") :
         IF o = "crashes"
         THEN Abort /\ hpc' = hpc
         ELSE hpc' = "exit" /\ UNCHANGED endVars
    /\ UNCHANGED <<argv, archive, queryVars, pc, it, memVars, agent_ptr, installed, hit, sigAt, out, readResult>>

\* the handler without its std::exit: it returns, and main resumes
HExitReturns ==
    /\ HandlerRuns /\ hpc = "exit"
    /\ hpc' = "none"
    /\ UNCHANGED <<argv, archive, queryVars, pc, it, memVars, agentVars, installed, hit, sigAt, endVars, out, readResult>>

\* std::exit(sig);
HExit ==
    /\ HandlerRuns /\ hpc = "exit"
    /\ Exit(SIGINT)
    /\ UNCHANGED <<argv, archive, queryVars, pc, it, memVars, agentVars, installed, handlerVars, out, readResult>>

MainStep ==
    \/ ParseFlags \/ CheckConf \/ InitLogger \/ InstallHandler \/ NewAgent
    \/ Initialize \/ ReadCall \/ ReadDeliver \/ ReadEnd \/ PrintCount
    \/ RenderChunk \/ RenderDelete \/ RenderEnd \/ CleanupDelete \/ ClearList
    \/ Shutdown \/ DeleteAgent \/ NullAgent \/ Return

HandlerStep == HPrint \/ HDelete \/ HShutdown \/ HDeleteAgent \/ HExit

Next == MainStep \/ Signal \/ HandlerStep

Spec == Init /\ [][Next]_vars

\* The runs of short command lines.  Once delivered, the handler runs to
\* its std::exit: nothing else is scheduled on the interrupted thread.
RunInit == InitWith(RunCommandLines, OneEventArchives)
RunSpec == RunInit /\ [][Next]_vars /\ WF_vars(HandlerStep)

\* The runs of the command line "-c f" over every archive.
QueryLine == <<F_c, <<"f">>>>
RenderInit == InitWith({QueryLine}, Archives)
RenderSpec == RenderInit /\ [][Next]_vars

(***************************************************************************)
(* Vocabulary of the properties.                                           *)
(***************************************************************************)
NumDeletes(c) == Len(deletes[c])
DeletedBy(c, who) == \E i \in 1..Len(deletes[c]) : deletes[c][i] = who
Delivered(c) == heap[c] # "unallocated"
Interrupted == sigAt # NoSignal
CallCount(op) == Cardinality({i \in 1..Len(calls) : calls[i].op = op})
Printed(item) == \E i \in 1..Len(out) : out[i] = item
Ended == term # "running"
EndedNonZero == term = "abort" \/ (term = "exit" /\ status # 0)
InRenderLoop == pc \in {"render", "render_delete"}

\* a -c or --config word that has a word after it
ConfigSupplied(args) == \E i \in 1..(Len(args) - 1) : args[i] \in {F_c, F_config}

\* SIGINT arrived after readArchivedStory returned and before the first
\* loop printed anything of a chunk
InterruptedUnrendered ==
    /\ Interrupted
    /\ sigAt.pc = "print_count" \/ (sigAt.pc = "render" /\ sigAt.it = 1)
    /\ Len(list_of_chunks) >= 1

(***************************************************************************)
(* C1: on a run without an interrupt, every chunk the read call delivered  *)
(* is deleted exactly once by the time the process ends: no chunk is ever  *)
(* deleted twice, and at the return from main none was left undeleted.     *)
(***************************************************************************)
C1_EachChunkDeletedOnce ==
    ~Interrupted =>
        /\ \A c \in Chunks : NumDeletes(c) <= 1
        /\ (term = "exit" /\ pc = "return") =>
               \A c \in Chunks : Delivered(c) => NumDeletes(c) = 1

(***************************************************************************)
(* C2: wherever SIGINT arrives, the handler never deletes a chunk that     *)
(* main has deleted, and main never deletes one the handler has deleted.   *)
(***************************************************************************)
C2_NoChunkDeletedByBothPaths ==
    \A c \in Chunks :
        ~(DeletedBy(c, "handler") /\ (DeletedBy(c, "render") \/ DeletedBy(c, "cleanup")))

(***************************************************************************)
(* C3: once the agent exists, shutdown() runs on it at most once and it is *)
(* deleted at most once, wherever SIGINT arrives; and a process that ended *)
(* by exit has run shutdown() exactly once.                                *)
(***************************************************************************)
C3_AgentShutDownOnce ==
    agent.mem # "none" =>
        /\ agent.down <= 1
        /\ CallCount("delete") <= 1
        /\ term = "exit" => agent.down = 1

(***************************************************************************)
(* C4: releasing again is a no-op: no step, of main or of the handler,     *)
(* deletes a chunk that has been deleted before.                           *)
(***************************************************************************)
C4_SecondReleaseIsNoOp ==
    [][\A c \in Chunks : heap[c] = "freed" => deletes'[c] = deletes[c]]_vars

(***************************************************************************)
(* C5: a step of the rendering loop changes neither the collection nor any *)
(* chunk: all it does is write output.                                     *)
(***************************************************************************)
C5_RenderChangesNoChunk ==
    [][(MainRuns /\ InRenderLoop /\ hpc' = "none")
          => (list_of_chunks' = list_of_chunks /\ heap' = heap)]_vars

(***************************************************************************)
(* C6: if SIGINT arrives while a collection of N >= 1 chunks is live and   *)
(* wholly unrendered, the process ends only by the handler's exit, with    *)
(* every chunk of the collection deleted exactly once (by the handler) and *)
(* shutdown() called exactly once; and the process does end.               *)
(***************************************************************************)
C6_AtHandlerExit ==
    (InterruptedUnrendered /\ Ended) =>
        /\ term = "exit"
        /\ \A i \in 1..Len(list_of_chunks) : deletes[list_of_chunks[i]] = <<"handler">>
        /\ \A c \in Chunks : Delivered(c) => NumDeletes(c) = 1
        /\ CallCount("shutdown") = 1
        /\ agent.down = 1

C6_InterruptUnrendered ==
    /\ []C6_AtHandlerExit
    /\ (InterruptedUnrendered ~> term = "exit")

C6_Witness ==
    /\ InterruptedUnrendered
    /\ term = "exit"
    /\ Len(list_of_chunks) = 2
    /\ \A i \in 1..2 : deletes[list_of_chunks[i]] = <<"handler">>
    /\ agent.down = 1

(***************************************************************************)
(* C7: a query with start_time > end_time makes no call to initialize()    *)
(* or readArchivedStory(), and its process does not end with status 0.     *)
(***************************************************************************)
C7_InvertedRangeRejected ==
    (pc # "flags" /\ NumGreater(start_time, end_time)) =>
        /\ CallCount("initialize") = 0
        /\ CallCount("readArchivedStory") = 0
        /\ Ended => EndedNonZero

(***************************************************************************)
(* C8: without a -c/--config word that has a value, the handler is never   *)
(* installed, no agent is created, no chunk is allocated, and the process  *)
(* ends by exit with a non-zero status after printing the usage message.   *)
(***************************************************************************)
C8_NoConfigUsageExit ==
    ~ConfigSupplied(argv) =>
        /\ ~installed
        /\ agent.mem = "none"
        /\ \A c \in Chunks : ~Delivered(c)
        /\ Ended => (term = "exit" /\ status # 0 /\ Printed(<<"usage">>))

(***************************************************************************)
(* C9: after a failed readArchivedStory (and no interrupt) main does not   *)
(* go on to print the result; the process ends with the collection         *)
(* released, shutdown() run once, and not with status 0.                   *)
(***************************************************************************)
C9_ReadFailureGoesToTeardown ==
    (readResult = "failed" /\ ~Interrupted) =>
        /\ pc \notin {"print_count", "render", "render_delete"}
        /\ Ended =>
              /\ \A c \in Chunks : heap[c] # "live"
              /\ agent.down = 1
              /\ EndedNonZero

(***************************************************************************)
(* C10: readArchivedStory is never called on an agent whose initialize()   *)
(* failed.                                                                 *)
(***************************************************************************)
C10_NoReadAfterFailedInitialize ==
    agent.init = "failed" => CallCount("readArchivedStory") = 0

(***************************************************************************)
(* C11: the collection is empty when the read call begins, and when either *)
(* teardown is complete (main at its return, the handler at its std::exit) *)
(* the collection is empty and no chunk is still allocated.                *)
(***************************************************************************)
C11_EmptyBeforeReadAndAfterTeardown ==
    /\ pc = "read" => list_of_chunks = <<>>
    /\ (pc = "return" \/ hpc = "exit") =>
           /\ list_of_chunks = <<>>
           /\ \A c \in Chunks : heap[c] # "live"

(***************************************************************************)
(* C12: a process whose handler ran has ended, if it has ended, by exit    *)
(* with the signal number as its status.                                   *)
(***************************************************************************)
C12_HandlerExitsWithSignal ==
    (Interrupted /\ Ended) => (term = "exit" /\ status = SIGINT)

(***************************************************************************)
(* C13: whenever main stands between two statements, where the handler    *)
(* or main's next loop can look at the collection, every slot of the       *)
(* collection refers to a chunk that has not been released.                *)
(***************************************************************************)
C13_NoReleasedChunkInCollection ==
    MainRuns => \A i \in 1..Len(list_of_chunks) : heap[list_of_chunks[i]] = "live"

(***************************************************************************)
(* C14: once the handler has started it stays started, no statement of     *)
(* main runs any more, and the process ends.                               *)
(***************************************************************************)
C14_OneShot ==
    /\ [][hpc # "none" =>
            /\ hpc' # "none"
            /\ sigAt' = sigAt
            /\ <<pc, it, installed, readResult, list_of_chunks, agent_ptr>>' =
                   <<pc, it, installed, readResult, list_of_chunks, agent_ptr>>
            /\ \A c \in Chunks :
                   deletes'[c] # deletes[c] => deletes'[c] = Append(deletes[c], "handler")
            /\ calls' # calls => calls'[Len(calls')].by = "handler"]_vars
    /\ (hpc # "none" ~> Ended)

C14_Witness ==
    /\ sigAt.pc = "render_delete"
    /\ hpc = "exit"
    /\ term = "exit"
    /\ status = SIGINT

(***************************************************************************)
(* C15: a reference is cleared only once its resource is released: the     *)
(* step that empties the collection finds every chunk of it freed, the     *)
(* step that nulls agent_ptr finds the agent shut down and freed, and in   *)
(* no state is a chunk live outside the collection or the agent live       *)
(* behind a null agent_ptr.                                                *)
(***************************************************************************)
C15_Unreferenced ==
    /\ \A c \in Chunks :
           heap[c] = "live" => \E i \in 1..Len(list_of_chunks) : list_of_chunks[i] = c
    /\ agent.mem = "live" => agent_ptr # NullPtr
    /\ agent_ptr = NullPtr /\ agent.mem # "none" => agent.down >= 1

C15_ClearAfterRelease ==
    /\ []C15_Unreferenced
    /\ [][(list_of_chunks' = <<>> /\ list_of_chunks # <<>>) =>
             \A i \in 1..Len(list_of_chunks) : heap[list_of_chunks[i]] = "freed"]_vars
    /\ [][(agent_ptr' = NullPtr /\ agent_ptr # NullPtr) =>
             (agent.mem = "freed" /\ agent.down >= 1)]_vars

C15_Witness ==
    /\ pc = "return"
    /\ agent_ptr = NullPtr /\ agent.mem = "freed"
    /\ list_of_chunks = <<>>
    /\ heap[1] = "freed" /\ heap[2] = "freed"

(***************************************************************************)
(* C16: on a run without an interrupt the calls on the agent are, in this  *)
(* order, new, initialize, readArchivedStory, shutdown, delete (a run that *)
(* ends early makes a prefix of them, a run that returns from main makes   *)
(* all), so there is one read and none after the shutdown; the chunk count *)
(* is printed after the read was called; and shutdown is called only with  *)
(* the collection emptied and every delivered chunk released.              *)
(***************************************************************************)
NormalCalls ==
    <<Call("new", "main"), Call("initialize", "main"), Call("readArchivedStory", "main"),
      Call("shutdown", "main"), Call("delete", "main")>>

C16_NormalOrder ==
    ~Interrupted =>
        /\ Len(calls) <= Len(NormalCalls)
        /\ calls = SubSeq(NormalCalls, 1, Len(calls))
        /\ (\E n \in 0..MaxChunks : Printed(<<"count", n>>)) => CallCount("readArchivedStory") = 1
        /\ pc = "return" => calls = NormalCalls
        /\ CallCount("shutdown") >= 1 =>
               /\ list_of_chunks = <<>>
               /\ \A c \in Chunks : heap[c] # "live"
               /\ \E n \in 0..MaxChunks : Printed(<<"count", n>>)

C16_Witness ==
    /\ ~Interrupted
    /\ term = "exit" /\ pc = "return"
    /\ calls = NormalCalls
    /\ NumDeletes(1) >= 1

(***************************************************************************)
(* C18: a run without an interrupt whose read call succeeds with zero      *)
(* chunks prints a chunk count of 0 and nothing of any chunk, deletes no   *)
(* chunk, calls shutdown() once, and returns 0.                            *)
(***************************************************************************)
C18_EmptyResult ==
    (~Interrupted /\ readResult = "ok" /\ list_of_chunks = <<>> /\ pc \notin {"reading", "print_count"}
        /\ \A c \in Chunks : ~Delivered(c)) =>
        /\ Printed(<<"count", 0>>)
        /\ \A i \in 1..Len(out) : out[i][1] \in {"reading", "count"}
        /\ \A c \in Chunks : deletes[c] = <<>>
        /\ Ended => (term = "exit" /\ status = EXIT_SUCCESS /\ pc = "return" /\ agent.down = 1)
        /\ agent.down <= 1

C18_Witness ==
    /\ ~Interrupted /\ readResult = "ok"
    /\ \A c \in Chunks : ~Delivered(c)
    /\ term = "exit" /\ status = EXIT_SUCCESS
    /\ Printed(<<"count", 0>>)
    /\ agent.down = 1

(***************************************************************************)
(* C19: the handler calls shutdown() only on an agent whose initialize()   *)
(* has succeeded.                                                          *)
(***************************************************************************)
C19_HandlerShutsDownInitialized ==
    (\E i \in 1..Len(calls) : calls[i] = Call("shutdown", "handler")) => agent.init = "yes"

(***************************************************************************)
(* C20: whenever the rendering loop is about to read a chunk, and when it  *)
(* has just read it, that chunk is allocated.                              *)
(***************************************************************************)
C20_RenderReadsLiveChunk ==
    (MainRuns /\ InRenderLoop /\ it <= Len(list_of_chunks)) =>
        heap[list_of_chunks[it]] = "live"

C20_Witness ==
    /\ MainRuns /\ pc = "render_delete" /\ it = 2
    /\ heap[list_of_chunks[1]] = "freed"
    /\ heap[list_of_chunks[2]] = "live"

(***************************************************************************)
(* C17: what the first loop has printed of the chunks is, for the chunks   *)
(* in the order the read call delivered them, each chunk once, none        *)
(* skipped: the chunk's event count and then its records by ascending      *)
(* index; and once the loop is over every delivered chunk was printed.     *)
(***************************************************************************)
ChunkLines == SelectSeq(out, LAMBDA x : x[1] \in {"chunk", "record"})
ChunksPrinted == Cardinality({i \in 1..Len(out) : out[i][1] = "chunk"})
NthIndex(held, n) == CHOOSE k \in held : Cardinality({j \in held : j < k}) = n - 1

ExpectedOf(c) ==
    <<<<"chunk", c, Cardinality(archive[c])>>>>
        \o [n \in 1..Cardinality(archive[c]) |-> <<"record", c, NthIndex(archive[c], n)>>]

RECURSIVE ExpectedUpTo(_)
ExpectedUpTo(k) == IF k = 0 THEN <<>> ELSE ExpectedUpTo(k - 1) \o ExpectedOf(k)

C17_RenderOrder ==
    /\ ChunksPrinted <= Len(archive)
    /\ ChunkLines = ExpectedUpTo(ChunksPrinted)
    /\ pc \in {"cleanup", "shutdown", "delete_agent", "null_agent", "return"} =>
           ChunksPrinted = Cardinality({c \in Chunks : Delivered(c)})
    /\ pc = "render" => ChunksPrinted = it - 1
    /\ pc = "render_delete" => ChunksPrinted = it

C17_Witness ==
    /\ pc = "return" /\ term = "exit"
    /\ archive = <<{1, 2}, {1}>>
    /\ ChunkLines = <<<<"chunk", 1, 2>>, <<"record", 1, 1>>, <<"record", 1, 2>>,
                      <<"chunk", 2, 1>>, <<"record", 2, 1>>>>

====
